---- MODULE Spec2Model ----
(***************************************************************************)
(* A model of the trading bot of tablekat/llm-trade-experiment:            *)
(*   src/src/bot/trading_bot.py        TradingBot                          *)
(*   src/src/llm/deepseek_provider.py  DeepSeekProvider                    *)
(*   src/src/analysis/order_flow.py    OrderFlowAnalyzer                   *)
(*                                                                         *)
(* Python floats are modelled as exact rationals n/d in lowest terms, so   *)
(* that every product, comparison, min and max of the code is computed     *)
(* and never approximated.  A Python value is a tagged record:             *)
(*   "num" a finite number, "none" the value None, "absent" a key that a   *)
(*   dict does not have, "nan" a float NaN, "str" a non-numeric string,    *)
(*   "numstr" a string that float() accepts.                               *)
(***************************************************************************)
EXTENDS Integers, Sequences, FiniteSets, TLC

VARIABLES
    pc,               \* where run_live / get_trading_decision stands
    attrs,            \* the attributes the TradingBot instance has
    cfg,              \* max_position_size, min_confidence, min_risk_reward
    min1_df,          \* the 1-minute frame object the data fetcher hands out
    current_price,    \* get_trading_decision: min1_df.iloc[-1]['close']
    flow_analysis,    \* get_trading_decision: result of _analyze_order_flow
    regime_info,      \* get_trading_decision: result of detect_regime
    raw,              \* the decision the provider returned in this cycle
    decision,         \* the decision get_trading_decision returned
    outcome,          \* which return statement of get_trading_decision ran
    calls,            \* the collaborators and stages invoked in this cycle
    current_position, \* whether self.current_position has been assigned
    fetched,          \* the frame as the data fetcher returned it in this cycle
    fin,              \* input of the function under test (function specs)
    fout              \* its result

vars == <<pc, attrs, cfg, min1_df, current_price, flow_analysis, regime_info,
          raw, decision, outcome, calls, current_position, fetched, fin, fout>>

botvars == <<pc, attrs, cfg, min1_df, current_price, flow_analysis, regime_info,
             raw, decision, outcome, calls, current_position, fetched>>

-----------------------------------------------------------------------------
(* Python values and float arithmetic                                      *)

Abs(x) == IF x < 0 THEN -x ELSE x

RECURSIVE GCD(_, _)
GCD(a, b) == IF b = 0 THEN a ELSE GCD(b, a % b)

\* the number n/d (d # 0), in lowest terms with a positive denominator
Rat(n, d) ==
    LET s == IF d < 0 THEN -1 ELSE 1
        g == GCD(Abs(n), Abs(d))
    IN  [t |-> "num", n |-> (s * n) \div g, d |-> (s * d) \div g]

Num(i) == [t |-> "num", n |-> i, d |-> 1]
None   == [t |-> "none", n |-> 0, d |-> 1]
Absent == [t |-> "absent", n |-> 0, d |-> 1]
NaN    == [t |-> "nan", n |-> 0, d |-> 1]
Str    == [t |-> "str", n |-> 0, d |-> 1]
NumStr(n, d) == [t |-> "numstr", n |-> n, d |-> d]

IsNum(v) == v.t = "num"

RMul(a, b) == Rat(a.n * b.n, a.d * b.d)
RAdd(a, b) == Rat(a.n * b.d + b.n * a.d, a.d * b.d)
RSub(a, b) == Rat(a.n * b.d - b.n * a.d, a.d * b.d)
RDiv(a, b) == Rat(a.n * b.d, a.d * b.n)
RNeg(a)    == Rat(-a.n, a.d)
RAbs(a)    == Rat(Abs(a.n), a.d)
RLt(a, b)  == a.n * b.d < b.n * a.d
RLe(a, b)  == a.n * b.d <= b.n * a.d

\* Python's min(a, b) and max(a, b): the first argument unless the second
\* is strictly smaller (larger)
RMin(a, b) == IF RLt(b, a) THEN b ELSE a
RMax(a, b) == IF RLt(a, b) THEN b ELSE a

Zero == Num(0)
One  == Num(1)

\* dict.get(key, 0): the default only when the key is absent
Get0(v) == IF v.t = "absent" THEN Zero ELSE v

RECURSIVE SumSeq(_)
SumSeq(s) == IF s = <<>> THEN 0 ELSE Head(s) + SumSeq(Tail(s))

Range(s) == {s[i] : i \in DOMAIN s}

-----------------------------------------------------------------------------
(* Candle series: what the market data provider hands out                  *)

WINDOW == 20     \* rolling(20), tail(20)
WarmBars == 19   \* flat bars in front of the last bar of a full series
ShortBars == 3   \* bars of a series shorter than the rolling window

RawCols == {"open", "high", "low", "close", "volume"}
DerivedCols == {"body_size", "upper_wick", "lower_wick", "sweep", "stopping_volume"}

Bar(o, h, l, c, v) == [open |-> o, high |-> h, low |-> l, close |-> c, volume |-> v]
FlatBar == Bar(100, 101, 99, 100, 1)

\* the last bar of each series; every series closes at 100
LastBar(kind) ==
    CASE kind = "quiet"      -> FlatBar
      [] kind = "bull_sweep" -> Bar(98, 100, 98, 100, 21)
      [] kind = "bear_stop"  -> Bar(101, 104, 100, 100, 21)
      [] kind = "stop_only"  -> Bar(99, 100, 96, 100, 2)
      [] OTHER               -> FlatBar

FullKinds == {"quiet", "bull_sweep", "bear_stop", "stop_only"}
SeriesKinds == FullKinds \cup {"short"}

Series(kind) ==
    IF kind = "short" THEN [i \in 1..ShortBars |-> FlatBar]
    ELSE [i \in 1..WarmBars |-> FlatBar] \o <<LastBar(kind)>>

NoColumns == [body_size |-> <<>>, upper_wick |-> <<>>, lower_wick |-> <<>>,
              sweep |-> <<>>, stopping_volume |-> <<>>]

\* a frame as the provider builds it: the raw columns only
FreshFrame(kind) == [bars |-> Series(kind), cols |-> RawCols, derived |-> NoColumns]
\* an empty frame (min1_df.empty), and no frame at all
EmptyFrame == [bars |-> <<>>, cols |-> RawCols, derived |-> NoColumns]
NoFrame == [bars |-> <<>>, cols |-> {}, derived |-> NoColumns]

-----------------------------------------------------------------------------
(* TradingBot._analyze_order_flow                                          *)

Max2(a, b) == IF a > b THEN a ELSE b
Min2(a, b) == IF a < b THEN a ELSE b

BodySize(b)  == Abs(b.close - b.open)
UpperWick(b) == b.high - Max2(b.open, b.close)
LowerWick(b) == Min2(b.open, b.close) - b.low

\* rolling(20): defined from the 20th bar on, NaN before
Rolled(bars, i) == i >= WINDOW
VolSum(bars, i)  == SumSeq([j \in 1..WINDOW |-> bars[i - WINDOW + j].volume])
BodySum(bars, i) == SumSeq([j \in 1..WINDOW |-> BodySize(bars[i - WINDOW + j])])

\* (volume > vol_mean * 2) & (body_size > body_size.rolling(20).mean());
\* a comparison with NaN is False
Sweep(bars, i) ==
    /\ Rolled(bars, i)
    /\ WINDOW * bars[i].volume > 2 * VolSum(bars, i)
    /\ WINDOW * BodySize(bars[i]) > BodySum(bars, i)

\* (volume > vol_mean * 1.5) & (bullish with lower wick > body | bearish
\* with upper wick > body)
StoppingVolume(bars, i) ==
    /\ Rolled(bars, i)
    /\ 2 * WINDOW * bars[i].volume > 3 * VolSum(bars, i)
    /\ \/ (bars[i].close > bars[i].open /\ LowerWick(bars[i]) > BodySize(bars[i]))
       \/ (bars[i].close < bars[i].open /\ UpperWick(bars[i]) > BodySize(bars[i]))

\* df.tail(20): the indices of the last 20 rows
TailRows(bars) == {i \in DOMAIN bars : i > Len(bars) - WINDOW}

SumOver(S, bars) == SumSeq([k \in 1..Len(bars) |-> IF k \in S THEN bars[k].volume ELSE 0])

BullishSweeps(bars) ==
    SumOver({i \in TailRows(bars) : Sweep(bars, i) /\ bars[i].close > bars[i].open}, bars)
BearishSweeps(bars) ==
    SumOver({i \in TailRows(bars) : Sweep(bars, i) /\ bars[i].close < bars[i].open}, bars)

\* vol_mean.mean(): the mean of the defined rolling means, NaN without any
VolMeanMean(bars) ==
    LET n == Len(bars)
        k == n - WINDOW + 1
    IN  IF k <= 0 THEN NaN
        ELSE Rat(SumSeq([j \in 1..k |-> VolSum(bars, WINDOW - 1 + j)]), WINDOW * k)

\* max(bullish, bearish) / vol_mean.mean(), a numpy division: x/NaN and 0/0
\* are NaN
SweepStrength(bars) ==
    LET m   == VolMeanMean(bars)
        top == Max2(BullishSweeps(bars), BearishSweeps(bars))
    IN  IF m.t = "nan" \/ m.n = 0 THEN NaN ELSE RDiv(Num(top), m)

AggressiveFlow(bars) ==
    LET m == VolMeanMean(bars)
    IN  /\ m.t = "num"
        /\ RLt(RMul(m, Num(10)), Num(BullishSweeps(bars) + BearishSweeps(bars)))

\* The frame is the caller's object: every df[...] = ... adds a column to it.
\* recent = df.tail(20) is taken after 'sweep' and before 'stopping_volume'
\* is assigned, so recent has a 'stopping_volume' column only when the frame
\* came in with one, and recent['stopping_volume'] is a KeyError otherwise.
AnalyzeOrderFlow(df) ==
    LET bars   == df.bars
        recent_cols == df.cols \cup {"body_size", "upper_wick", "lower_wick", "sweep"}
        recent_stopping == df.derived.stopping_volume
        mutated == [bars |-> bars,
                    cols |-> df.cols \cup DerivedCols,
                    derived |->
                      [body_size  |-> [i \in DOMAIN bars |-> BodySize(bars[i])],
                       upper_wick |-> [i \in DOMAIN bars |-> UpperWick(bars[i])],
                       lower_wick |-> [i \in DOMAIN bars |-> LowerWick(bars[i])],
                       sweep      |-> [i \in DOMAIN bars |-> Sweep(bars, i)],
                       stopping_volume |-> [i \in DOMAIN bars |-> StoppingVolume(bars, i)]]]
    IN  IF "stopping_volume" \notin recent_cols
        THEN [raised |-> TRUE, err |-> "'stopping_volume'", df |-> mutated,
              result |-> [sweep_bias |-> "none", sweep_strength |-> NaN,
                          stopping_volume_detected |-> FALSE, aggressive_flow |-> FALSE]]
        ELSE [raised |-> FALSE, err |-> "", df |-> mutated,
              result |->
                [sweep_bias |-> IF BullishSweeps(bars) > BearishSweeps(bars)
                                THEN "bullish" ELSE "bearish",
                 sweep_strength |-> SweepStrength(bars),
                 stopping_volume_detected |->
                     \E i \in TailRows(bars) : recent_stopping[i],
                 aggressive_flow |-> AggressiveFlow(bars)]]

NoFlow == [sweep_bias |-> "none", sweep_strength |-> NaN,
           stopping_volume_detected |-> FALSE, aggressive_flow |-> FALSE]


-----------------------------------------------------------------------------
(* OrderFlowAnalyzer._analyze_level1_footprint                             *)

\* the columns the function assigns on the frame it is handed, up to the
\* volume profile and after it
FootprintBaseCols == {"typical_price", "money_flow", "institutional_volume", "hour"}
FootprintCols == FootprintBaseCols \cup
    {"weighted_delta", "cum_delta", "spread", "body", "upper_wick", "lower_wick",
     "absorption", "stopping_volume", "distribution", "accumulation"}

\* 3 * typical_price = high + low + close
TypicalKey(b) == b.high + b.low + b.close

VolSqSum(bars, i) ==
    SumSeq([j \in 1..WINDOW |-> bars[i - WINDOW + j].volume * bars[i - WINDOW + j].volume])

\* volume > vol_mean + (2 + vol_std / vol_mean) * vol_std, with the sample
\* standard deviation of rolling(20).std(); False where the rolling values
\* are NaN.  With m the mean and s2 the variance the test is
\* volume - m - s2/m > 2*sqrt(s2), decided on the squares.
InstitutionalVolume(bars, i) ==
    /\ Rolled(bars, i)
    /\ VolSum(bars, i) # 0
    /\ LET S  == VolSum(bars, i)
           m  == Rat(S, WINDOW)
           s2 == Rat(WINDOW * VolSqSum(bars, i) - S * S, WINDOW * (WINDOW - 1))
           L  == RSub(RSub(Num(bars[i].volume), m), RDiv(s2, m))
       IN  /\ RLt(Zero, L)
           /\ RLt(RMul(Num(4), s2), RMul(L, L))

\* the k-th smallest typical price (k from 0), as pd.qcut sorts them
SortedKey(bars, k) ==
    CHOOSE v \in {TypicalKey(bars[i]) : i \in DOMAIN bars} :
        /\ Cardinality({i \in DOMAIN bars : TypicalKey(bars[i]) < v}) <= k
        /\ k < Cardinality({i \in DOMAIN bars : TypicalKey(bars[i]) <= v})

\* pd.qcut(df['typical_price'], q=10) raises "Bin edges must be unique" when
\* two neighbouring deciles coincide: the interpolated quantile is constant
\* between positions (n-1)k/10 and (n-1)(k+1)/10 of the sorted prices
QcutRaises(bars) ==
    LET n == Len(bars)
    IN  \E k \in 0..9 :
           SortedKey(bars, ((n - 1) * k) \div 10)
             = SortedKey(bars, ((n - 1) * (k + 1) + 9) \div 10)

\* rows of recent whose volume exceeds 1.2 * vol_mean
HighVolumeCount(bars) ==
    Cardinality({i \in TailRows(bars) :
                    Rolled(bars, i) /\ 5 * WINDOW * bars[i].volume > 6 * VolSum(bars, i)})

InstBars(bars) == {i \in TailRows(bars) : InstitutionalVolume(bars, i)}
BullishVolume(bars) ==
    SumOver({i \in InstBars(bars) : bars[i].close > bars[i].open}, bars)
BearishVolume(bars) ==
    SumOver({i \in InstBars(bars) : bars[i].close < bars[i].open}, bars)

\* abs(bullish - bearish) / (bullish + bearish) on numpy scalars: 0/0 is NaN
BiasStrength(bars) ==
    LET b == BullishVolume(bars)
        s == BearishVolume(bars)
    IN  IF b + s = 0 THEN NaN ELSE Rat(Abs(b - s), b + s)

\* institutional & (bullish with lower wick > 1.5 body | bearish with upper
\* wick > 1.5 body)
FootprintStoppingVolume(bars, i) ==
    /\ InstitutionalVolume(bars, i)
    /\ \/ (bars[i].close > bars[i].open /\ 2 * LowerWick(bars[i]) > 3 * BodySize(bars[i]))
       \/ (bars[i].close < bars[i].open /\ 2 * UpperWick(bars[i]) > 3 * BodySize(bars[i]))

NoFootprint == [institutional_bias |-> "none", bias_strength |-> NaN,
                stopping_volume |-> FALSE, large_player_activity |-> NaN]

\* The verdict fields that depend on the institutional bars, the columns the
\* caller's frame has gained, and what the call raises:
\*  - pd.qcut at line 60 when the decile edges are not unique;
\*  - recent['volume'] > vol_mean * 1.2 at line 126 compares a 20-row series
\*    with the full-length one, a ValueError unless the frame has at most 20
\*    rows;
\*  - recent['std'] at line 127, a column nothing creates, once more than 10
\*    rows pass the comparison.
AnalyzeLevel1Footprint(bars) ==
    IF QcutRaises(bars)
    THEN [raised |-> TRUE, err |-> "Bin edges must be unique",
          cols |-> FootprintBaseCols, result |-> NoFootprint]
    ELSE IF Len(bars) > WINDOW
    THEN [raised |-> TRUE, err |-> "Can only compare identically-labeled Series objects",
          cols |-> FootprintCols, result |-> NoFootprint]
    ELSE IF HighVolumeCount(bars) > 10
    THEN [raised |-> TRUE, err |-> "'std'", cols |-> FootprintCols,
          result |-> NoFootprint]
    ELSE [raised |-> FALSE, err |-> "", cols |-> FootprintCols,
          result |->
            [institutional_bias |-> IF BullishVolume(bars) > BearishVolume(bars)
                                    THEN "bullish" ELSE "bearish",
             bias_strength |-> BiasStrength(bars),
             stopping_volume |-> \E i \in TailRows(bars) : FootprintStoppingVolume(bars, i),
             large_player_activity |->
                 Rat(Cardinality(InstBars(bars)), Cardinality(TailRows(bars)))]]


-----------------------------------------------------------------------------
(* Market regime verdicts (MarketRegimeDetector.detect_regime)             *)

KnownRegimes == {"TRENDING_UP", "TRENDING_DOWN", "MOMENTUM", "BREAKOUT",
                 "RANGING_LOW_VOL", "RANGING_HIGH_VOL", "REVERSAL",
                 "ACCUMULATION", "DISTRIBUTION", "EXHAUSTION"}
\* UNKNOWN stands for a member of MarketRegime the factor tables do not list
Regimes == KnownRegimes \cup {"UNKNOWN"}

Verdict(r, c, td) == [regime |-> r, confidence |-> c, has_details |-> TRUE,
                      trend_direction |-> td]
NoVerdict == [regime |-> "absent", confidence |-> Zero, has_details |-> FALSE,
              trend_direction |-> 0]

-----------------------------------------------------------------------------
(* Trading decisions                                                       *)

Decision(p, c, tp, sl, cp, why) ==
    [position |-> p, confidence |-> c, take_profit |-> tp, stop_loss |-> sl,
     current_price |-> cp, reasoning |-> why]

NoDecision == Decision(Absent, Absent, Absent, Absent, Absent, <<>>)

\* a faulty variant: the empty frame answered like a failure
NoDataAsError ==
    Decision(Zero, Zero, Absent, Absent, Absent, <<"Error: ", "No market data available">>)

\* get_trading_decision's return on an empty 1-minute frame
NoDataDecision == Decision(Zero, Zero, Absent, Absent, Absent, <<"No market data available">>)

\* a faulty variant: an except branch that returns the bare message
ErrorDecisionBare(e) == Decision(Zero, Zero, Absent, Absent, Absent, <<e>>)

\* a faulty variant: an except branch that returns no numbers
ErrorDecisionNone(e) == Decision(None, None, Absent, Absent, Absent, <<"Error: ", e>>)

\* get_trading_decision's except branch
ErrorDecision(e) == Decision(Zero, Zero, Absent, Absent, Absent, <<"Error: ", e>>)

Ok(d)       == [raised |-> FALSE, err |-> "", d |-> d]
Raise(e, d) == [raised |-> TRUE, err |-> e, d |-> d]

-----------------------------------------------------------------------------
(* Stage 1: the order-flow adjustment of get_trading_decision              *)

\* a faulty variant: the boost given whatever the direction of the decision
FlowGatingAnyDirection(d, flow) ==
    LET boosted == RMin(One, RMul(d.confidence, RAdd(One, flow.sweep_strength)))
        c1 == IF flow.aggressive_flow THEN boosted ELSE d.confidence
        c2 == IF flow.stopping_volume_detected THEN RMul(c1, Rat(7, 10)) ELSE c1
    IN  [d EXCEPT !.confidence = c2]

\* aggressive_flow is true only with a defined, non-zero vol_mean.mean(),
\* so sweep_strength is a number wherever it is read
FlowGating(d, flow) ==
    LET boosted == RMin(One, RMul(d.confidence, RAdd(One, flow.sweep_strength)))
        c1 == IF /\ flow.aggressive_flow
                 /\ \/ (flow.sweep_bias = "bullish" /\ RLt(Zero, d.position))
                    \/ (flow.sweep_bias = "bearish" /\ RLt(d.position, Zero))
              THEN boosted ELSE d.confidence
        c2 == IF flow.stopping_volume_detected THEN RMul(c1, Rat(7, 10)) ELSE c1
    IN  [d EXCEPT !.confidence = c2]

-----------------------------------------------------------------------------
(* Stage 2: TradingBot._adjust_for_regime                                  *)

\* a faulty variant: the long formula used for both directions
TightenedStopLongOnly(position, cp, sl) ==
    RMax(sl, RSub(cp, RMul(RSub(cp, sl), Rat(7, 10))))

\* lines 62-71: max(...) for a long, min(...) otherwise
TightenedStop(position, cp, sl) ==
    IF RLt(Zero, position)
    THEN RMax(sl, RSub(cp, RMul(RSub(cp, sl), Rat(7, 10))))
    ELSE RMin(sl, RAdd(cp, RMul(RSub(sl, cp), Rat(7, 10))))

\* a faulty variant: the boost without its cap at 1.0
BoostUncapped(confidence, regime_conf, tenths) ==
    RMul(confidence, RAdd(One, RMul(regime_conf, Rat(tenths, 10))))

\* a faulty variant: the regime share added instead of multiplied in
BoostAdditive(confidence, regime_conf, tenths) ==
    RMin(One, RAdd(confidence, RMul(regime_conf, Rat(tenths, 10))))

Boost(confidence, regime_conf, tenths) ==
    RMin(One, RMul(confidence, RAdd(One, RMul(regime_conf, Rat(tenths, 10)))))

AdjustForRegime(d, ri) ==
    LET regime      == ri.regime
        regime_conf == ri.confidence
        position    == Get0(d.position)
        confidence  == Get0(d.confidence)
        prefix      == <<"Market Regime: ", regime>>
        Done(x)     == Ok([x EXCEPT !.reasoning = prefix \o x.reasoning])
    IN  IF regime = "absent" THEN Raise("'regime'", d)
        ELSE IF ~ri.has_details THEN Raise("'details'", d)
        ELSE IF regime \in {"RANGING_LOW_VOL", "RANGING_HIGH_VOL"}
        THEN LET d1 == [d EXCEPT !.position = RMul(position, Rat(7, 10))]
             IN  IF regime = "RANGING_HIGH_VOL"
                 THEN LET cp == Get0(d.current_price)
                          sl == Get0(d.stop_loss)
                      IN  IF sl.t = "none"
                          THEN Raise("unsupported operand type(s): NoneType", d1)
                          ELSE Done([d1 EXCEPT !.stop_loss = TightenedStop(position, cp, sl)])
                 ELSE Done(d1)
        ELSE IF regime \in {"TRENDING_UP", "TRENDING_DOWN"}
        THEN LET aligned == \/ (regime = "TRENDING_UP" /\ RLt(Zero, position))
                            \/ (regime = "TRENDING_DOWN" /\ RLt(position, Zero))
             IN  IF aligned
                 THEN Done([d EXCEPT !.confidence = Boost(confidence, regime_conf, 3)])
                 ELSE Done([d EXCEPT !.confidence = RMul(confidence, Rat(1, 2))])
        ELSE IF regime = "BREAKOUT"
        THEN LET aligned == \/ (ri.trend_direction > 0 /\ RLt(Zero, position))
                            \/ (ri.trend_direction < 0 /\ RLt(position, Zero))
             IN  IF aligned
                 THEN Done([d EXCEPT !.confidence = Boost(confidence, regime_conf, 5)])
                 ELSE Done(d)
        ELSE IF regime = "REVERSAL"
        THEN LET aligned == \/ (ri.trend_direction < 0 /\ RLt(Zero, position))
                            \/ (ri.trend_direction > 0 /\ RLt(position, Zero))
             IN  IF aligned
                 THEN Done([d EXCEPT !.confidence = Boost(confidence, regime_conf, 4)])
                 ELSE Done(d)
        ELSE Done(d)

-----------------------------------------------------------------------------
(* Stage 3: TradingBot._adjust_position_for_regime                         *)

\* a faulty variant: a negative factor for reversals
RegimeFactorContrarian(regime) ==
    IF regime = "REVERSAL" THEN Rat(-7, 10) ELSE Rat(5, 10)

\* lines 157-171: regime_factors.get(regime, 0.5)
RegimeFactor(regime) ==
    CASE regime \in {"TRENDING_UP", "TRENDING_DOWN"} -> Rat(10, 10)
      [] regime = "MOMENTUM"         -> Rat(12, 10)
      [] regime = "BREAKOUT"         -> Rat(11, 10)
      [] regime = "RANGING_LOW_VOL"  -> Rat(8, 10)
      [] regime = "RANGING_HIGH_VOL" -> Rat(6, 10)
      [] regime = "REVERSAL"         -> Rat(7, 10)
      [] regime = "ACCUMULATION"     -> Rat(9, 10)
      [] regime = "DISTRIBUTION"     -> Rat(7, 10)
      [] regime = "EXHAUSTION"       -> Rat(5, 10)
      [] OTHER                       -> Rat(5, 10)

\* a faulty variant: the product returned without the clamp
AdjustPositionUnclamped(position, confidence, ri) ==
    RMul(RMul(position, RMul(RegimeFactor(ri.regime), ri.confidence)), confidence)

AdjustPositionForRegime(position, confidence, ri) ==
    LET regime_factor == RMul(RegimeFactor(ri.regime), ri.confidence)
        adjusted_position == RMul(RMul(position, regime_factor), confidence)
    IN  RMax(RMin(adjusted_position, One), RNeg(One))

-----------------------------------------------------------------------------
(* Stage 4: TradingBot._adjust_stops_for_regime                            *)

RiskMultiplier(regime) ==
    CASE regime \in {"TRENDING_UP", "TRENDING_DOWN"} -> Rat(10, 10)
      [] regime = "MOMENTUM"         -> Rat(8, 10)
      [] regime = "BREAKOUT"         -> Rat(12, 10)
      [] regime = "RANGING_LOW_VOL"  -> Rat(9, 10)
      [] regime = "RANGING_HIGH_VOL" -> Rat(13, 10)
      [] regime = "REVERSAL"         -> Rat(11, 10)
      [] regime = "ACCUMULATION"     -> Rat(9, 10)
      [] regime = "DISTRIBUTION"     -> Rat(11, 10)
      [] regime = "EXHAUSTION"       -> Rat(12, 10)
      [] OTHER                       -> Rat(10, 10)

\* a faulty variant: the distance always added above the price
AdjustLevelUpward(level, cp, multiplier) ==
    IF level.t = "none" THEN level
    ELSE RAdd(cp, RMul(RAbs(RSub(level, cp)), multiplier))

\* lines 204-214: None stays None, otherwise the distance is scaled on the
\* side of the price the level is on
AdjustLevel(level, cp, multiplier) ==
    IF level.t = "none" THEN level
    ELSE LET distance == RAbs(RSub(level, cp))
             side     == IF RLt(cp, level) THEN One ELSE RNeg(One)
         IN  RAdd(cp, RMul(RMul(distance, multiplier), side))

AdjustStopsForRegime(take_profit, stop_loss, cp, ri) ==
    <<AdjustLevel(take_profit, cp, RiskMultiplier(ri.regime)),
      AdjustLevel(stop_loss, cp, RiskMultiplier(ri.regime))>>


-----------------------------------------------------------------------------
(* TradingBot._calculate_position_size                                     *)

\* round(x, 2) in hundredths: to the nearest, a tie to the even neighbour
Round2(x) ==
    LET k   == (100 * x.n) \div x.d
        rem == 100 * x.n - k * x.d
    IN  IF 2 * rem > x.d THEN k + 1
        ELSE IF 2 * rem < x.d THEN k
        ELSE IF k % 2 = 0 THEN k ELSE k + 1

Returned(x) == [raised |-> FALSE, size |-> x]
TypeError   == [raised |-> TRUE, size |-> Zero]

RiskReward(d) ==
    LET cp == d.current_price
        tp == d.take_profit
        sl == d.stop_loss
        potential_profit == IF RLt(Zero, d.position) THEN RSub(tp, cp) ELSE RSub(cp, tp)
        potential_loss   == IF RLt(Zero, d.position) THEN RSub(cp, sl) ELSE RSub(sl, cp)
    IN  [profit |-> potential_profit, loss |-> potential_loss]

\* a faulty variant: the dead zone and the confidence gate joined by "and"
NoTradeGateBoth(position, confidence, c) ==
    RLt(RAbs(position), Rat(1, 10)) /\ RLt(confidence, c.min_confidence)

\* abs(position) < 0.1 or confidence < self.min_confidence
NoTradeGate(position, confidence, c) ==
    RLt(RAbs(position), Rat(1, 10)) \/ RLt(confidence, c.min_confidence)

\* a faulty variant: a ratio equal to the minimum rejected too
AtOrBelowMinimum(risk_reward, c) == RLe(risk_reward, c.min_risk_reward)

\* risk_reward < self.min_risk_reward
BelowMinimum(risk_reward, c) == RLt(risk_reward, c.min_risk_reward)

CalculatePositionSize(c, d) ==
    LET position   == Get0(d.position)
        confidence == Get0(d.confidence)
        cp == Get0(d.current_price)
        tp == Get0(d.take_profit)
        sl == Get0(d.stop_loss)
        dd == [d EXCEPT !.current_price = cp, !.take_profit = tp, !.stop_loss = sl]
        rr == RiskReward(dd)
        risk_reward == RDiv(rr.profit, rr.loss)
        confidence_factor  == RMin(One, confidence)
        risk_reward_factor == RMin(One, RDiv(risk_reward, RMul(Num(2), c.min_risk_reward)))
        position_size == RMul(RMul(c.max_position_size, confidence_factor), risk_reward_factor)
    IN  IF NoTradeGate(position, confidence, c)
        THEN Returned(Zero)
        ELSE IF cp.t = "none" \/ tp.t = "none" \/ sl.t = "none" THEN TypeError
        ELSE IF cp.n = 0 \/ tp.n = 0 \/ sl.n = 0 THEN Returned(Zero)
        ELSE IF RLe(rr.loss, Zero) THEN Returned(Zero)
        ELSE IF BelowMinimum(risk_reward, c) THEN Returned(Zero)
        ELSE Returned(Rat(Round2(position_size), 100))

DefaultConfig == [max_position_size |-> One, min_confidence |-> Rat(6, 10),
                  min_risk_reward |-> Rat(15, 10)]

-----------------------------------------------------------------------------
(* TradingBot.get_trading_decision, from the provider's answer on          *)

Stage1 == <<"flow_gating">>
Stage2 == Stage1 \o <<"_adjust_for_regime">>
Stage3 == Stage2 \o <<"_adjust_position_for_regime">>
Stage4 == Stage3 \o <<"_adjust_stops_for_regime">>

Failed(e, stages) == [outcome |-> "error", decision |-> ErrorDecision(e), stages |-> stages]

FormatNone == "unsupported format string passed to NoneType.__format__"

AdjustmentChain(rawd, cp, flow, ri) ==
    LET d0 == [rawd EXCEPT !.current_price = cp]
        d1 == FlowGating(d0, flow)
        s2 == AdjustForRegime(d1, ri)
        d2 == s2.d
        raw_position == Get0(d2.position)
        adjusted_position == AdjustPositionForRegime(raw_position, d2.confidence, ri)
        stops == AdjustStopsForRegime(d2.take_profit, d2.stop_loss, cp, ri)
        d4 == [d2 EXCEPT !.position = adjusted_position,
                         !.take_profit = stops[1], !.stop_loss = stops[2]]
    IN  IF s2.raised THEN Failed(s2.err, Stage2)
        ELSE IF d2.take_profit.t = "absent" THEN Failed("'take_profit'", Stage3)
        ELSE IF d2.stop_loss.t = "absent" THEN Failed("'stop_loss'", Stage3)
        ELSE IF d4.take_profit.t = "none" \/ d4.stop_loss.t = "none"
        THEN Failed(FormatNone, Stage4)
        ELSE [outcome |-> "adjusted", decision |-> d4, stages |-> Stage4]


-----------------------------------------------------------------------------
(* DeepSeekProvider.get_trading_decision                                   *)

DryRunDecision ==
    Decision(Zero, Zero, None, None, Absent, <<"Dry run mode - no API call made">>)

\* the outer except branch: whatever was raised inside the try block
FallbackDecision(e) ==
    Decision(Zero, Zero, None, None, Absent, <<"Error getting trading decision: ", e>>)

\* float(v) succeeds on numbers and numeric strings
Floatable(v) == v.t \in {"num", "numstr", "nan"}
AsFloat(v) == IF v.t = "numstr" THEN Rat(v.n, v.d) ELSE v
\* a faulty variant: the upper bound not tested
InRangeFromBelow(v, lo, hi) == v.t # "nan" /\ RLe(lo, AsFloat(v))

\* lo <= float(v) <= hi, False for NaN
InRange(v, lo, hi) == v.t # "nan" /\ RLe(lo, AsFloat(v)) /\ RLe(AsFloat(v), hi)

Response(transport, status, body, p, c, tp, sl, why) ==
    [transport |-> transport, status |-> status, body |-> body, position |-> p,
     confidence |-> c, take_profit |-> tp, stop_loss |-> sl, reasoning |-> why]

\* the validation of the parsed object: the decision to return, or the
\* message of what it raises
ValidateDecision(r, cp) ==
    LET why == IF r.reasoning = "dict" THEN <<"formatted reasoning">> ELSE <<"reasoning">>
        tp  == AsFloat(r.take_profit)
        sl  == AsFloat(r.stop_loss)
        d   == Decision(r.position, r.confidence, tp, sl, Absent, why)
    IN  IF \/ r.reasoning = "absent"
           \/ \E v \in {r.position, r.confidence, r.take_profit, r.stop_loss} : v.t = "absent"
        THEN Raise("Missing required keys in decision", NoDecision)
        ELSE IF ~Floatable(r.position) THEN Raise("float() argument", NoDecision)
        ELSE IF ~InRange(r.position, RNeg(One), One)
        THEN Raise("Position value out of range", NoDecision)
        ELSE IF ~Floatable(r.confidence) THEN Raise("float() argument", NoDecision)
        ELSE IF ~InRange(r.confidence, Zero, One)
        THEN Raise("Confidence value out of range", NoDecision)
        ELSE IF ~Floatable(r.take_profit) \/ ~Floatable(r.stop_loss)
        THEN Raise("take_profit and stop_loss must be numeric values", NoDecision)
        ELSE IF r.position.t = "numstr"
        THEN Raise("'>' not supported between instances of 'str' and 'int'", NoDecision)
        ELSE IF RLt(Zero, r.position) /\ tp.t = "num" /\ RLe(tp, cp)
        THEN Raise("take_profit must be above current price for long positions", NoDecision)
        ELSE IF RLt(Zero, r.position) /\ sl.t = "num" /\ RLe(cp, sl)
        THEN Raise("stop_loss must be below current price for long positions", NoDecision)
        ELSE IF RLt(r.position, Zero) /\ tp.t = "num" /\ RLe(cp, tp)
        THEN Raise("take_profit must be below current price for short positions", NoDecision)
        ELSE IF RLt(r.position, Zero) /\ sl.t = "num" /\ RLe(sl, cp)
        THEN Raise("stop_loss must be above current price for short positions", NoDecision)
        ELSE Ok(d)

\* the body of the try block
ParseResponse(r, cp) ==
    IF r.transport # "ok" THEN Raise("connection error", NoDecision)
    ELSE IF r.status # 200 THEN Raise("API request failed with status", NoDecision)
    ELSE IF r.body = "bad_json" THEN Raise("JSONDecodeError", NoDecision)
    ELSE IF r.body = "no_object" THEN Raise("No JSON object found in response", NoDecision)
    ELSE IF r.body = "bad_object" THEN Raise("JSONDecodeError", NoDecision)
    ELSE ValidateDecision(r, cp)

ProviderGetTradingDecision(dry_run, r, cp) ==
    IF dry_run
    THEN [raised |-> FALSE, decision |-> DryRunDecision, network_calls |-> 0]
    ELSE LET parsed == ParseResponse(r, cp)
         IN  [raised |-> FALSE,
              decision |-> IF parsed.raised THEN FallbackDecision(parsed.err) ELSE parsed.d,
              network_calls |-> 1]


-----------------------------------------------------------------------------
(* The inputs the collaborators can hand to the bot                        *)

RegimeConfs == {Rat(8, 10), One}

\* trend_direction is read in the BREAKOUT and REVERSAL branches only
TrendDirs(r) == IF r \in {"BREAKOUT", "REVERSAL"} THEN {-1, 0, 1}
                ELSE IF r = "TRENDING_UP" THEN {1}
                ELSE IF r = "TRENDING_DOWN" THEN {-1} ELSE {0}

Verdicts ==
    {Verdict(r, c, td) : r \in Regimes, c \in RegimeConfs, td \in {-1, 0, 1}}

WellFormedVerdicts == {v \in Verdicts : v.trend_direction \in TrendDirs(v.regime)}

\* a verdict without its 'regime' key, and one without its 'details' key
MalformedVerdicts ==
    {[Verdict("TRENDING_UP", Rat(8, 10), 1) EXCEPT !.regime = "absent"],
     [Verdict("TRENDING_UP", Rat(8, 10), 1) EXCEPT !.has_details = FALSE]}

RegimeOutcomes == WellFormedVerdicts \cup MalformedVerdicts

\* a provider other than DeepSeekProvider may answer outside [-1, 1]
ProviderPositions == {Num(-2), Rat(-8, 10), Zero, Rat(8, 10), Num(2)}
ProviderConfidences == {Zero, Rat(7, 10), One}
ProviderLevels == {<<Num(110), Num(95)>>, <<Num(90), Num(105)>>, <<None, None>>,
                   <<Absent, Num(95)>>, <<Num(110), Absent>>}

ProviderDecisions ==
    {Decision(p, c, lv[1], lv[2], Absent, <<"reasoning">>) :
        p \in ProviderPositions, c \in ProviderConfidences, lv \in ProviderLevels}
    \cup {DryRunDecision, FallbackDecision("connection error")}

-----------------------------------------------------------------------------
(* TradingBot.__init__, run_live and get_trading_decision                  *)

CtorAttrs == {"symbol", "data_fetcher", "llm", "max_position_size", "min_confidence",
              "min_risk_reward", "regime_detector", "logger"}
\* read by run_live, assigned by no method of the class
LoopAttrs == {"position_threshold", "update_interval"}
PositionThreshold == Rat(1, 10)

NoFunction == [done |-> FALSE]

Init ==
    /\ pc = "constructed"
    /\ attrs = CtorAttrs
    /\ cfg = DefaultConfig
    /\ min1_df = NoFrame
    /\ current_price = Absent
    /\ flow_analysis = NoFlow
    /\ regime_info = NoVerdict
    /\ raw = NoDecision
    /\ decision = NoDecision
    /\ outcome = "none"
    /\ calls = <<>>
    /\ current_position = FALSE
    /\ fetched = NoFrame
    /\ fin = NoFunction
    /\ fout = NoFunction

\* the embedding script assigns attributes on the instance before it runs it
SetLoopAttributes ==
    /\ pc = "constructed"
    /\ \E S \in SUBSET LoopAttrs :
          /\ S # {}
          /\ ~(S \subseteq attrs)
          /\ attrs' = attrs \cup S
    /\ UNCHANGED <<pc, cfg, min1_df, current_price, flow_analysis, regime_info, raw,
                   decision, outcome, calls, current_position, fetched, fin, fout>>

\* run(): asyncio.run(self.run_live())
RunLive ==
    /\ pc = "constructed"
    /\ pc' = "loop"
    /\ UNCHANGED <<attrs, cfg, min1_df, current_price, flow_analysis, regime_info, raw,
                   decision, outcome, calls, current_position, fetched, fin, fout>>

\* while True: decision = await self.get_trading_decision(), up to the await
\* of fetch_multi_timeframe_data
CallGetTradingDecision ==
    /\ pc = "loop"
    /\ pc' = "fetching"
    /\ current_price' = Absent
    /\ flow_analysis' = NoFlow
    /\ regime_info' = NoVerdict
    /\ raw' = NoDecision
    /\ decision' = NoDecision
    /\ outcome' = "none"
    /\ fetched' = NoFrame
    /\ calls' = <<"fetch_multi_timeframe_data">>
    /\ UNCHANGED <<attrs, cfg, min1_df, current_position, fin, fout>>

ReturnDecision(kind, d) ==
    /\ pc' = "decided"
    /\ outcome' = kind
    /\ decision' = d

\* the fetch raises
FetchRaises ==
    /\ pc = "fetching"
    /\ ReturnDecision("error", ErrorDecision("fetch failed"))
    /\ UNCHANGED <<attrs, cfg, min1_df, current_price, flow_analysis, regime_info, raw,
                   calls, current_position, fetched, fin, fout>>

\* the fetch returns an empty 1-minute frame
FetchReturnsEmpty ==
    /\ pc = "fetching"
    /\ fetched' = EmptyFrame
    /\ ReturnDecision("no_data", NoDataDecision)
    /\ UNCHANGED <<attrs, cfg, min1_df, current_price, flow_analysis, regime_info, raw,
                   calls, current_position, fin, fout>>

\* The fetch returns a frame with bars: one newly built, or the object it
\* returned before (a caching fetcher), which then carries the columns the
\* bot has added to it.  The code runs on to the await of the provider.
FetchReturns(df) ==
    LET flow == AnalyzeOrderFlow(df)
        last_close == Num(df.bars[Len(df.bars)].close)
    IN  /\ pc = "fetching"
        /\ fetched' = df
        /\ min1_df' = flow.df
        /\ current_price' = last_close
        /\ IF flow.raised
           THEN /\ calls' = calls \o <<"_analyze_order_flow">>
                /\ ReturnDecision("error", ErrorDecision(flow.err))
                /\ UNCHANGED <<flow_analysis, regime_info>>
           ELSE /\ flow_analysis' = flow.result
                /\ calls' = calls \o <<"_analyze_order_flow", "detect_regime">>
                /\ \/ /\ ReturnDecision("error", ErrorDecision("detect_regime failed"))
                      /\ UNCHANGED regime_info
                   \/ /\ \E ri \in RegimeOutcomes : regime_info' = ri
                      /\ pc' = "awaiting_llm"
                      /\ UNCHANGED <<decision, outcome>>
        /\ UNCHANGED <<attrs, cfg, raw, current_position, fin, fout>>

FetchReturnsFrame ==
    \/ \E kind \in SeriesKinds : FetchReturns(FreshFrame(kind))
    \/ /\ min1_df.bars # <<>>
       /\ FetchReturns(min1_df)

\* the provider raises
ProviderRaises ==
    /\ pc = "awaiting_llm"
    /\ calls' = calls \o <<"llm.get_trading_decision">>
    /\ ReturnDecision("error", ErrorDecision("provider failed"))
    /\ UNCHANGED <<attrs, cfg, min1_df, current_price, flow_analysis, regime_info, raw,
                   current_position, fetched, fin, fout>>

\* the provider returns a decision: the adjustment chain, to the return
ProviderReturns ==
    /\ pc = "awaiting_llm"
    /\ \E rawd \in ProviderDecisions :
          LET r == AdjustmentChain(rawd, current_price, flow_analysis, regime_info)
          IN  /\ raw' = rawd
              /\ calls' = calls \o <<"llm.get_trading_decision">> \o r.stages
              /\ ReturnDecision(r.outcome, r.decision)
    /\ UNCHANGED <<attrs, cfg, min1_df, current_price, flow_analysis, regime_info,
                   current_position, fetched, fin, fout>>

\* a faulty variant: the next iteration started without the sleep
LoopTailNoWait ==
    /\ pc = "decided"
    /\ pc' = IF "update_interval" \in attrs THEN "loop" ELSE "terminated"
    /\ UNCHANGED <<attrs, cfg, min1_df, current_price, flow_analysis, regime_info, raw,
                   decision, outcome, calls, current_position, fetched, fin, fout>>

\* run_live after the decision: the log, the threshold test, the sleep, and
\* the except branch with its own sleep.  self.position_threshold and
\* self.update_interval raise AttributeError when the instance lacks them;
\* raised in the except branch it leaves run_live.
LoopTail ==
    LET threshold_ok == "position_threshold" \in attrs
        interval_ok  == "update_interval" \in attrs
        trade == /\ threshold_ok
                 /\ RLe(PositionThreshold, RAbs(decision.position))
                 /\ RLe(cfg.min_confidence, decision.confidence)
    IN  /\ pc = "decided"
        /\ current_position' = (current_position \/ trade)
        /\ attrs' = IF trade THEN attrs \cup {"current_position"} ELSE attrs
        /\ pc' = IF interval_ok THEN "sleeping" ELSE "terminated"
        /\ UNCHANGED <<cfg, min1_df, current_price, flow_analysis, regime_info, raw,
                       decision, outcome, calls, fetched, fin, fout>>

\* asyncio.sleep(self.update_interval) is over: the next iteration
WakeUp ==
    /\ pc = "sleeping"
    /\ pc' = "loop"
    /\ UNCHANGED <<attrs, cfg, min1_df, current_price, flow_analysis, regime_info, raw,
                   decision, outcome, calls, current_position, fetched, fin, fout>>

Next ==
    \/ SetLoopAttributes
    \/ RunLive
    \/ CallGetTradingDecision
    \/ FetchRaises
    \/ FetchReturnsEmpty
    \/ FetchReturnsFrame
    \/ ProviderRaises
    \/ ProviderReturns
    \/ LoopTail
    \/ WakeUp

Spec == Init /\ [][Next]_vars


-----------------------------------------------------------------------------
(* _calculate_position_size applied to a decision: the function on its own *)

SizerConfigs ==
    {[max_position_size |-> m, min_confidence |-> mc, min_risk_reward |-> mr] :
        m  \in {Zero, Rat(2, 3), One},
        mc \in {Zero, Rat(6, 10)},
        mr \in {One, Rat(15, 10)}}

SizerPositions   == {Absent, Rat(-8, 10), Rat(-1, 10), Rat(-5, 100), Zero,
                     Rat(5, 100), Rat(1, 10), Rat(8, 10)}
SizerConfidences == {Absent, Zero, Rat(1, 2), Rat(6, 10), Rat(8, 10), One}
SizerLevels      == {None, Absent, Num(85), Num(90), Num(95), Num(100), Num(105),
                     Num(110), Num(115)}

SizerDecisions ==
    {Decision(p, c, tp, sl, Num(100), <<"reasoning">>) :
        p \in SizerPositions, c \in SizerConfidences,
        tp \in SizerLevels, sl \in SizerLevels}

BotIdle ==
    /\ pc = "constructed"
    /\ attrs = CtorAttrs
    /\ cfg = DefaultConfig
    /\ min1_df = NoFrame
    /\ current_price = Absent
    /\ flow_analysis = NoFlow
    /\ regime_info = NoVerdict
    /\ raw = NoDecision
    /\ decision = NoDecision
    /\ outcome = "none"
    /\ calls = <<>>
    /\ current_position = FALSE
    /\ fetched = NoFrame

SizerInit ==
    /\ BotIdle
    /\ fin \in [c : SizerConfigs, d : SizerDecisions]
    /\ fout = NoFunction

ApplySizer ==
    /\ ~fout.done
    /\ fout' = [done |-> TRUE, result |-> CalculatePositionSize(fin.c, fin.d)]
    /\ UNCHANGED <<botvars, fin>>

SizerNext == ApplySizer

SizerSpec == SizerInit /\ [][SizerNext]_vars

-----------------------------------------------------------------------------
(* DeepSeekProvider.get_trading_decision on one response                   *)

ResponsePositions   == {Absent, None, Str, NumStr(1, 2), NaN, Rat(-3, 2), Rat(-1, 2),
                        Zero, Rat(1, 2), One, Rat(3, 2)}
ResponseConfidences == {Absent, Str, NumStr(1, 2), Rat(-1, 10), Zero, Rat(1, 2),
                        Rat(11, 10)}
\* json.loads reads the literal NaN, and float("nan") is a float
ResponseTakeProfits == {Absent, None, Str, NumStr(110, 1), NaN, Num(90), Num(100),
                        Num(110)}
ResponseStopLosses  == {Absent, None, Str, Num(95), Num(100), Num(105)}

ObjectResponses ==
    {Response("ok", 200, "object", p, c, tp, sl, why) :
        p \in ResponsePositions, c \in ResponseConfidences,
        tp \in ResponseTakeProfits, sl \in ResponseStopLosses,
        why \in {"text", "dict", "absent"}}

\* a good object behind a failed transport, a non-200 status or a body that
\* does not decode
GoodObject(transport, status, body) ==
    Response(transport, status, body, Rat(1, 2), Rat(1, 2), Num(110), Num(95), "text")

BrokenResponses ==
    {GoodObject("error", 200, "object"), GoodObject("ok", 500, "object"),
     GoodObject("ok", 429, "object"), GoodObject("ok", 200, "bad_json"),
     GoodObject("ok", 200, "no_object"), GoodObject("ok", 200, "bad_object")}

Responses == ObjectResponses \cup BrokenResponses

ProviderInit ==
    /\ BotIdle
    /\ fin \in [dry_run : BOOLEAN, response : Responses, price : {Num(100)}]
    /\ fout = NoFunction

CallProvider ==
    /\ ~fout.done
    /\ fout' = [done |-> TRUE,
                result |-> ProviderGetTradingDecision(fin.dry_run, fin.response, fin.price)]
    /\ UNCHANGED <<botvars, fin>>

ProviderNext == CallProvider

ProviderSpec == ProviderInit /\ [][ProviderNext]_vars


-----------------------------------------------------------------------------
(* _analyze_level1_footprint applied to one candle series                  *)

\* a bar of a rising series: every bar has its own typical price
RisingBar(i, dir, v) ==
    CASE dir = "bull" -> Bar(100 + i, 102 + i, 99 + i, 101 + i, v)
      [] dir = "bear" -> Bar(101 + i, 102 + i, 99 + i, 100 + i, v)
      [] OTHER        -> Bar(100 + i, 102 + i, 99 + i, 100 + i, v)

FootprintLens == {1, ShortBars, WarmBars, WarmBars + 1, WarmBars + 2}
LastVolumes == {1, 2, 21, 30}
LastDirs == {"bull", "bear", "doji"}

\* n - 1 quiet bars of volume 1 and a last bar of the given direction and
\* volume; a flat series repeats one price, a rising one never does
FootprintSeries(n, shape, dir, v) ==
    [i \in 1..n |->
        IF shape = "flat"
        THEN (IF i = n THEN [LastBar("quiet") EXCEPT !.volume = v] ELSE FlatBar)
        ELSE (IF i = n THEN RisingBar(i, dir, v) ELSE RisingBar(i, "bull", 1))]

FootprintInputs ==
    {FootprintSeries(n, shape, dir, v) :
        n \in FootprintLens, shape \in {"flat", "rising"}, dir \in LastDirs,
        v \in LastVolumes}

FootprintInit ==
    /\ BotIdle
    /\ fin \in [bars : FootprintInputs]
    /\ fout = NoFunction

ApplyFootprint ==
    /\ ~fout.done
    /\ fout' = [done |-> TRUE, result |-> AnalyzeLevel1Footprint(fin.bars)]
    /\ UNCHANGED <<botvars, fin>>

FootprintNext == ApplyFootprint

FootprintSpec == FootprintInit /\ [][FootprintNext]_vars


-----------------------------------------------------------------------------
(* The adjustment chain of get_trading_decision on one provider decision   *)

\* The verdicts _analyze_order_flow can return.  aggressive_flow means
\* bullish + bearish > 10 * vol_mean.mean(), and sweep_strength is
\* max(bullish, bearish) / vol_mean.mean(), so an aggressive verdict has a
\* strength above 5; a series shorter than the window gives NaN.
FlowStrengths(aggressive) ==
    IF aggressive THEN {Num(6), Rat(21, 2)} ELSE {NaN, Zero, Num(2)}

FlowVerdicts ==
    {[sweep_bias |-> b, sweep_strength |-> st, stopping_volume_detected |-> sv,
      aggressive_flow |-> a] :
        b \in {"bullish", "bearish"}, a \in BOOLEAN, sv \in BOOLEAN,
        st \in {NaN, Zero, Num(2), Num(6), Rat(21, 2)}}

ReachableFlowVerdicts == {f \in FlowVerdicts : f.sweep_strength \in FlowStrengths(f.aggressive_flow)}

AdjusterPositions == {Num(-2), Rat(-8, 10), Zero, Rat(8, 10), Num(2)}
AdjusterConfidences == {Zero, Rat(1, 10), Rat(7, 10), One}
AdjusterLevels == {<<Num(110), Num(95)>>, <<Num(90), Num(105)>>, <<Num(95), Num(110)>>,
                   <<None, None>>}

AdjusterDecisions ==
    {Decision(p, c, lv[1], lv[2], Absent, <<"reasoning">>) :
        p \in AdjusterPositions, c \in AdjusterConfidences, lv \in AdjusterLevels}

AdjusterInit ==
    /\ BotIdle
    /\ fin \in [d : AdjusterDecisions, price : {Num(100)}, flow : ReachableFlowVerdicts,
                ri : WellFormedVerdicts]
    /\ fout = NoFunction

\* lines 289-338 of get_trading_decision, with the value every stage produced
ApplyAdjustments ==
    LET d0 == [fin.d EXCEPT !.current_price = fin.price]
        s1 == FlowGating(d0, fin.flow)
        s2 == AdjustForRegime(s1, fin.ri)
    IN  /\ ~fout.done
        /\ fout' = [done |-> TRUE,
                    s1 |-> s1,
                    s2 |-> s2,
                    position |-> AdjustPositionForRegime(Get0(s2.d.position),
                                                         s2.d.confidence, fin.ri),
                    stops |-> AdjustStopsForRegime(s2.d.take_profit, s2.d.stop_loss,
                                                   fin.price, fin.ri),
                    chain |-> AdjustmentChain(fin.d, fin.price, fin.flow, fin.ri)]
        /\ UNCHANGED <<botvars, fin>>

AdjusterNext == ApplyAdjustments

AdjusterSpec == AdjusterInit /\ [][AdjusterNext]_vars


-----------------------------------------------------------------------------
(* Properties                                                              *)

WithinUnit(v) == IsNum(v) /\ RLe(RNeg(One), v) /\ RLe(v, One)
Called(name) == name \in Range(calls)
Adjusted == outcome = "adjusted"

\* C1: the position of every decision get_trading_decision returns lies in
\* [-1.0, 1.0]; on the adjusted path it is the value
\* _adjust_position_for_regime returned, for provider positions inside and
\* outside [-1, 1], every regime and every regime confidence.
C1_PositionWithinUnit ==
    outcome # "none" => WithinUnit(decision.position)

\* C1 witness: a provider position of 2.0 in MOMENTUM at full confidence,
\* whose product 2.4 is returned as 1.0
C1_Witness ==
    /\ Adjusted
    /\ raw.position = Num(2)
    /\ regime_info.regime = "MOMENTUM"
    /\ decision.confidence = One
    /\ decision.position = One

\* C2: a bot built by its constructor alone never leaves run_live: after a
\* failing cycle it sleeps and starts the next one.
C2_LoopSurvivesFailure ==
    (attrs \cap LoopAttrs = {}) => pc # "terminated"

\* C3: a decision returned from the adjustment chain has been through
\* _calculate_position_size after the adjuster and carries its gates: a
\* decision the sizer sizes at 0.0 is returned with position 0.
C3_SizerRunsBeforeReturn ==
    (pc = "decided" /\ Adjusted) =>
        /\ Called("_calculate_position_size")
        /\ (CalculatePositionSize(cfg, decision) = Returned(Zero)
               => decision.position = Zero)

MissingLevel(v) == v.t \in {"none", "absent"}
MissingField ==
    \/ MissingLevel(raw.take_profit)
    \/ MissingLevel(raw.stop_loss)
    \/ regime_info.regime = "absent"
    \/ ~regime_info.has_details

\* C4: when take_profit or stop_loss is None or absent, or the regime
\* verdict lacks 'regime' or 'details', the decision the provider gave is
\* returned, adjusted by the other stages, with the missing level as it was.
C4_MissingFieldPassesThrough ==
    (pc = "decided" /\ Called("llm.get_trading_decision") /\ raw # NoDecision
        /\ MissingField) =>
        /\ Adjusted
        /\ MissingLevel(raw.take_profit) => decision.take_profit = raw.take_profit
        /\ MissingLevel(raw.stop_loss) => decision.stop_loss = raw.stop_loss

\* C5: once _analyze_order_flow has run on the frame the fetcher returned,
\* the frame has the columns and values it had when it was returned.
C5_SeriesNotMutated ==
    Called("_analyze_order_flow") => min1_df = fetched


\* the gates of _calculate_position_size in front of the risk/reward test,
\* on the function's input
SizerGatesPassed ==
    LET d == fin.d
    IN  /\ IsNum(d.position) /\ IsNum(d.confidence)
        /\ RLe(Rat(1, 10), RAbs(d.position))
        /\ RLe(fin.c.min_confidence, d.confidence)
        /\ IsNum(d.take_profit) /\ IsNum(d.stop_loss)
        /\ IF RLt(Zero, d.position)
           THEN RLt(d.stop_loss, d.current_price)
           ELSE RLt(d.current_price, d.stop_loss)

\* reward distance and risk distance of the input, long or short
InputProfit == IF RLt(Zero, fin.d.position)
               THEN RSub(fin.d.take_profit, fin.d.current_price)
               ELSE RSub(fin.d.current_price, fin.d.take_profit)
InputLoss   == IF RLt(Zero, fin.d.position)
               THEN RSub(fin.d.current_price, fin.d.stop_loss)
               ELSE RSub(fin.d.stop_loss, fin.d.current_price)
\* risk/reward compared with the minimum, without a division
RatioBelowMinimum == RLt(InputProfit, RMul(fin.c.min_risk_reward, InputLoss))
RatioAtMinimum    == InputProfit = RMul(fin.c.min_risk_reward, InputLoss)

\* |100 * size - 100 * x| <= 1/2: size is x rounded to 2 decimals
RoundedFrom(size, x) == RLe(RAbs(RSub(size, x)), Rat(1, 200))

\* C6 as stated: the size is 0.0 whenever risk/reward <= min_risk_reward.
C6_ZeroAtOrBelowMinimum ==
    (fout.done /\ SizerGatesPassed /\ (RatioBelowMinimum \/ RatioAtMinimum))
        => fout.result = Returned(Zero)

\* C6 amended: the size is 0.0 whenever risk/reward < min_risk_reward; at
\* risk/reward = min_risk_reward the gate passes and the size is
\* max_position_size * min(1, confidence) * 0.5, rounded to 2 decimals.
C6_ZeroBelowMinimum ==
    (fout.done /\ SizerGatesPassed) =>
        /\ RatioBelowMinimum => fout.result = Returned(Zero)
        /\ RatioAtMinimum =>
              /\ ~fout.result.raised
              /\ RoundedFrom(fout.result.size,
                   RMul(RMul(fin.c.max_position_size, RMin(One, fin.d.confidence)),
                        Rat(1, 2)))

\* C6 witness: a short at 100 with target 95 and stop 110 (ratio 0.5), sized 0.0
C6_Witness ==
    /\ fout.done /\ SizerGatesPassed /\ RatioBelowMinimum
    /\ fin.d.position = Rat(-8, 10)
    /\ fin.d.take_profit = Num(95) /\ fin.d.stop_loss = Num(110)
    /\ fout.result = Returned(Zero)

\* C7: the size is exactly 0.0 whenever |position| < 0.1 (an absent
\* position counts as 0), whatever confidence, take_profit and stop_loss
\* are, None included, and whenever confidence < min_confidence.
C7_DeadZoneAndMinConfidence ==
    fout.done =>
        /\ RLt(RAbs(Get0(fin.d.position)), Rat(1, 10)) => fout.result = Returned(Zero)
        /\ RLt(Get0(fin.d.confidence), fin.c.min_confidence)
              => fout.result = Returned(Zero)

\* C7 witness: position 0.05 at confidence 1.0 with take_profit None
C7_Witness ==
    /\ fout.done
    /\ fin.d.position = Rat(5, 100)
    /\ fin.d.confidence = One
    /\ fin.d.take_profit = None
    /\ fout.result = Returned(Zero)

\* C8: with max_position_size >= 0, min_confidence >= 0, min_risk_reward > 0,
\* every size returned lies in [0.0, max_position_size], and past the gates
\* it is max_position_size * min(1, confidence) *
\* min(1, risk_reward / (2 * min_risk_reward)) rounded to 2 decimals.
C8_SizeWithinBounds ==
    (/\ fout.done /\ ~fout.result.raised
     /\ RLe(Zero, fin.c.max_position_size) /\ RLe(Zero, fin.c.min_confidence)
     /\ RLt(Zero, fin.c.min_risk_reward)) =>
        /\ RLe(Zero, fout.result.size)
        /\ RLe(fout.result.size, fin.c.max_position_size)
        /\ (SizerGatesPassed /\ ~RatioBelowMinimum) =>
              RoundedFrom(fout.result.size,
                RMul(RMul(fin.c.max_position_size, RMin(One, fin.d.confidence)),
                     RMin(One, RDiv(RDiv(InputProfit, InputLoss),
                                    RMul(Num(2), fin.c.min_risk_reward)))))

\* the provider's neutral decision: dry run or the except branch
Neutral(d) ==
    /\ d.position = Zero /\ d.confidence = Zero
    /\ d.take_profit = None /\ d.stop_loss = None

SideInconsistent(r, cp) ==
    /\ IsNum(r.position)
    /\ IsNum(AsFloat(r.take_profit)) /\ IsNum(AsFloat(r.stop_loss))
    /\ \/ /\ RLt(Zero, r.position)
          /\ (RLe(AsFloat(r.take_profit), cp) \/ RLe(cp, AsFloat(r.stop_loss)))
       \/ /\ RLt(r.position, Zero)
          /\ (RLe(cp, AsFloat(r.take_profit)) \/ RLe(AsFloat(r.stop_loss), cp))

Malformed(r, cp) ==
    \/ r.status # 200
    \/ r.body # "object"
    \/ r.reasoning = "absent"
    \/ \E v \in {r.position, r.confidence, r.take_profit, r.stop_loss} : v.t = "absent"
    \/ (IsNum(r.position) /\ (RLt(r.position, RNeg(One)) \/ RLt(One, r.position)))
    \/ (IsNum(r.confidence) /\ (RLt(r.confidence, Zero) \/ RLt(One, r.confidence)))
    \/ ~Floatable(r.take_profit)
    \/ ~Floatable(r.stop_loss)
    \/ SideInconsistent(r, cp)

\* C10 as stated: outside dry run a malformed response reaches the caller as
\* a failure and never as a default decision.
C10_MalformedIsSurfaced ==
    (fout.done /\ ~fin.dry_run /\ Malformed(fin.response, fin.price))
        => fout.result.raised

\* C10 amended: outside dry run a malformed response is never returned as
\* the decision; the call returns the neutral decision (position 0,
\* confidence 0, take_profit and stop_loss None) whose reasoning begins
\* "Error getting trading decision: ".  Dry run returns its canned neutral
\* decision and makes no network call.
C10_MalformedYieldsFallback ==
    fout.done =>
        /\ fin.dry_run =>
              /\ fout.result.decision = DryRunDecision
              /\ fout.result.network_calls = 0
        /\ (~fin.dry_run /\ Malformed(fin.response, fin.price)) =>
              /\ ~fout.result.raised
              /\ Neutral(fout.result.decision)
              /\ fout.result.decision.reasoning[1] = "Error getting trading decision: "

\* C10 witness: a 200 response whose object has position 1.5, answered by
\* the neutral decision
C10_Witness ==
    /\ fout.done /\ ~fin.dry_run
    /\ fin.response.body = "object" /\ fin.response.position = Rat(3, 2)
    /\ fin.response.confidence = Rat(1, 2)
    /\ fin.response.take_profit = Num(110) /\ fin.response.stop_loss = Num(95)
    /\ fin.response.reasoning = "text"
    /\ Neutral(fout.result.decision)


\* a decision the provider built from the API response: neither the canned
\* dry-run decision nor the except branch's
FromParsedResponse ==
    /\ fout.done /\ ~fin.dry_run
    /\ fout.result.decision.reasoning[1] # "Error getting trading decision: "

\* C11: a decision returned from a parsed API response has position,
\* confidence, take_profit, stop_loss and reasoning, position in [-1, 1],
\* confidence in [0, 1], numeric take_profit and stop_loss, and its levels on
\* the right side of the last 1-minute close: a long has
\* stop_loss < price < take_profit, a short take_profit < price < stop_loss.
C11_ValidatedDecisionShape ==
    FromParsedResponse =>
        LET d == fout.result.decision
        IN  /\ WithinUnit(d.position)
            /\ IsNum(d.confidence) /\ RLe(Zero, d.confidence) /\ RLe(d.confidence, One)
            /\ IsNum(d.take_profit) /\ IsNum(d.stop_loss)
            /\ d.reasoning # <<>>
            /\ RLt(Zero, d.position) =>
                  (RLt(d.stop_loss, fin.price) /\ RLt(fin.price, d.take_profit))
            /\ RLt(d.position, Zero) =>
                  (RLt(d.take_profit, fin.price) /\ RLt(fin.price, d.stop_loss))


\* the institutional bars of the trailing window of the input series
InputInstBars == InstBars(fin.bars)

\* C12: when the trailing window holds an institutional bar with non-zero
\* volume, the summarizer returns a bias_strength within [0, 1]; when it
\* holds none, the summarizer returns a verdict whose bias_strength is NaN
\* and does not raise.
C12_BiasStrengthDefined ==
    fout.done =>
        /\ (\E i \in InputInstBars : fin.bars[i].volume > 0) =>
              /\ ~fout.result.raised
              /\ IsNum(fout.result.result.bias_strength)
              /\ RLe(Zero, fout.result.result.bias_strength)
              /\ RLe(fout.result.result.bias_strength, One)
        /\ (InputInstBars = {}) =>
              /\ ~fout.result.raised
              /\ fout.result.result.bias_strength = NaN


\* the long of the trending scenario, under TRENDING_UP at confidence 0.8
TrendingScenario ==
    /\ fin.d.position = Rat(8, 10) /\ fin.d.confidence = Rat(7, 10)
    /\ fin.d.take_profit = Num(110) /\ fin.d.stop_loss = Num(95)
    /\ fin.ri.regime = "TRENDING_UP" /\ fin.ri.confidence = Rat(8, 10)

\* stage 1 left the confidence as the provider gave it
FlowGatingIdle == fout.s1.confidence = fin.d.confidence

Trending == fin.ri.regime \in {"TRENDING_UP", "TRENDING_DOWN"}
TrendAligned ==
    \/ (fin.ri.regime = "TRENDING_UP" /\ RLt(Zero, fin.d.position))
    \/ (fin.ri.regime = "TRENDING_DOWN" /\ RLt(fin.d.position, Zero))

\* C13: in a trending regime stage 2 leaves the position alone and gives an
\* aligned decision the confidence min(1, c * (1 + 0.3 * regime_conf)), a
\* non-aligned one c * 0.5, c being the stage-1 confidence; stage 3 then
\* multiplies the position by 1.0 * regime_conf * confidence.  For the long
\* 0.8 / 0.7 under TRENDING_UP at 0.8 without a flow-gating change that is
\* confidence 0.868, multiplier 0.6944 and final position 0.55552.
C13_TrendingScenario ==
    (fout.done /\ Trending) =>
        LET c  == fout.s1.confidence
            rc == fin.ri.confidence
        IN  /\ ~fout.s2.raised
            /\ fout.s2.d.position = fin.d.position
            /\ fout.s2.d.confidence =
                  IF TrendAligned
                  THEN RMin(One, RMul(c, RAdd(One, RMul(Rat(3, 10), rc))))
                  ELSE RMul(c, Rat(1, 2))
            /\ (TrendingScenario /\ FlowGatingIdle) =>
                  /\ fout.s2.d.confidence = Rat(868, 1000)
                  /\ RMul(RMul(One, Rat(8, 10)), fout.s2.d.confidence) = Rat(6944, 10000)
                  /\ fout.position = Rat(55552, 100000)
                  /\ fout.chain.outcome = "adjusted"
                  /\ fout.chain.decision.position = Rat(55552, 100000)
                  /\ fout.chain.decision.confidence = Rat(868, 1000)

\* C13 witness: the scenario itself with a quiet order flow
C13_Witness ==
    /\ fout.done /\ TrendingScenario /\ FlowGatingIdle
    /\ ~fin.flow.aggressive_flow /\ ~fin.flow.stopping_volume_detected
    /\ fout.s2.d.confidence = Rat(868, 1000)
    /\ fout.chain.decision.position = Rat(55552, 100000)


\* C14: in RANGING_HIGH_VOL stage 2 multiplies the position by 0.7 and moves
\* a numeric stop_loss to 70% of its distance: a long with the stop below
\* the price gets price - 0.7 * (price - stop), a short with the stop above
\* it gets price + 0.7 * (stop - price); the new stop is never farther from
\* the price than the old one and never on the other side of the price.
\* Position 0.8 at price 100 with stop 95 gives 0.56 and 96.5.
C14_HighVolTightening ==
    (fout.done /\ fin.ri.regime = "RANGING_HIGH_VOL" /\ IsNum(fin.d.stop_loss)) =>
        LET cp  == fin.price
            sl  == fin.d.stop_loss
            new == fout.s2.d.stop_loss
        IN  /\ ~fout.s2.raised
            /\ fout.s2.d.position = RMul(fin.d.position, Rat(7, 10))
            /\ (RLt(Zero, fin.d.position) /\ RLt(sl, cp)) =>
                  new = RSub(cp, RMul(Rat(7, 10), RSub(cp, sl)))
            /\ (RLt(fin.d.position, Zero) /\ RLt(cp, sl)) =>
                  new = RAdd(cp, RMul(Rat(7, 10), RSub(sl, cp)))
            /\ RLe(RAbs(RSub(new, cp)), RAbs(RSub(sl, cp)))
            /\ RLe(sl, cp) => RLe(new, cp)
            /\ RLe(cp, sl) => RLe(cp, new)
            /\ (fin.d.position = Rat(8, 10) /\ sl = Num(95)) =>
                  /\ fout.s2.d.position = Rat(56, 100)
                  /\ new = Rat(965, 10)

\* C14 witness: a short of -0.8 at price 100 with stop 105, tightened to 103.5
C14_Witness ==
    /\ fout.done /\ fin.ri.regime = "RANGING_HIGH_VOL"
    /\ fin.d.position = Rat(-8, 10) /\ fin.d.stop_loss = Num(105)
    /\ fout.s2.d.position = Rat(-56, 100)
    /\ fout.s2.d.stop_loss = Rat(1035, 10)


\* the order flow is aggressive and its bias has the sign of the position
FlowAgrees ==
    /\ fin.flow.aggressive_flow
    /\ \/ (fin.flow.sweep_bias = "bullish" /\ RLt(Zero, fin.d.position))
       \/ (fin.flow.sweep_bias = "bearish" /\ RLt(fin.d.position, Zero))

\* C15: for a provider confidence c in [0, 1], stage 1 raises the confidence
\* to min(1.0, c * (1 + sweep_strength)) exactly when the flow is aggressive
\* and its bias agrees with the sign of the position, and leaves it as it is
\* otherwise; then, if stopping volume is detected, it multiplies the
\* confidence by 0.7 whatever the direction, so that with stopping volume the
\* stage-1 confidence is at most 0.7.  Nothing else of the decision changes.
C15_FlowGating ==
    (/\ fout.done /\ IsNum(fin.d.confidence)
     /\ RLe(Zero, fin.d.confidence) /\ RLe(fin.d.confidence, One)) =>
        LET c  == fin.d.confidence
            c1 == IF FlowAgrees
                  THEN RMin(One, RMul(c, RAdd(One, fin.flow.sweep_strength)))
                  ELSE c
        IN  /\ ~fin.flow.stopping_volume_detected => fout.s1.confidence = c1
            /\ fin.flow.stopping_volume_detected =>
                  /\ fout.s1.confidence = RMul(c1, Rat(7, 10))
                  /\ RLe(fout.s1.confidence, Rat(7, 10))
            /\ fout.s1 = [fin.d EXCEPT !.current_price = fin.price,
                                       !.confidence = fout.s1.confidence]

\* C15 witness: a long at confidence 0.1 under aggressive bullish flow of
\* strength 6 with stopping volume: 0.1 * 7 = 0.7, then 0.49
C15_Witness ==
    /\ fout.done /\ FlowAgrees /\ fin.flow.stopping_volume_detected
    /\ fin.d.position = Rat(8, 10) /\ fin.d.confidence = Rat(1, 10)
    /\ fin.flow.sweep_strength = Num(6)
    /\ fout.s1.confidence = Rat(49, 100)


\* the risk multipliers as the design lists them, in tenths
ListedRiskTenths ==
    [r \in Regimes |->
        CASE r \in {"TRENDING_UP", "TRENDING_DOWN"} -> 10
          [] r = "MOMENTUM" -> 8
          [] r = "BREAKOUT" -> 12
          [] r = "RANGING_LOW_VOL" -> 9
          [] r = "RANGING_HIGH_VOL" -> 13
          [] r = "REVERSAL" -> 11
          [] r = "ACCUMULATION" -> 9
          [] r = "DISTRIBUTION" -> 11
          [] r = "EXHAUSTION" -> 12
          [] OTHER -> 10]

\* level, handed to stage 4 at price cp, came back as out
SidePreserved(level, out, cp, regime) ==
    IF level.t = "none" THEN out = None
    ELSE /\ IsNum(out)
         /\ RLt(cp, level) => RLt(cp, out)
         /\ RLt(level, cp) => RLt(out, cp)
         /\ RAbs(RSub(out, cp)) =
               RMul(RAbs(RSub(level, cp)), Rat(ListedRiskTenths[regime], 10))

\* C16: stage 4 returns a take_profit or stop_loss strictly above the price
\* strictly above it and one strictly below strictly below it, at the
\* original distance times the risk multiplier of the regime, for every
\* regime; a level that is None comes back as None.
C16_StopsKeepTheirSide ==
    (fout.done /\ ~fout.s2.raised) =>
        /\ SidePreserved(fout.s2.d.take_profit, fout.stops[1], fin.price, fin.ri.regime)
        /\ SidePreserved(fout.s2.d.stop_loss, fout.stops[2], fin.price, fin.ri.regime)

\* C16 witness: a short in MOMENTUM with target 90 and stop 105 at price 100,
\* rescaled to 92 and 104
C16_Witness ==
    /\ fout.done /\ ~fout.s2.raised
    /\ fin.ri.regime = "MOMENTUM"
    /\ fout.s2.d.take_profit = Num(90) /\ fout.s2.d.stop_loss = Num(105)
    /\ fout.stops = <<Num(92), Num(104)>>

\* C16 also covers the level that is None
C16_WitnessNone ==
    /\ fout.done /\ ~fout.s2.raised
    /\ fout.s2.d.take_profit = None
    /\ fout.stops[1] = None


\* a get_trading_decision call of run_live has not returned yet
InFlight == pc \in {"fetching", "awaiting_llm"}

\* C17: run_live runs its cycles one after the other: a call of
\* get_trading_decision starts only at the top of the loop, when no call is
\* in flight; the wait starts only when the call has returned; and the top
\* of the loop is reached again only from the wait (or from run() the first
\* time).
C17_SequentialCycles ==
    [][/\ (InFlight' /\ ~InFlight) => pc = "loop"
       /\ (pc' = "sleeping" /\ pc # "sleeping") => pc = "decided"
       /\ (pc' = "loop" /\ pc # "loop") => pc \in {"constructed", "sleeping"}
       /\ (pc' = "decided" /\ pc # "decided") => InFlight]_vars

\* C17 witness: a later cycle in flight, the frame of an earlier cycle still
\* held by the fetcher
C17_Witness ==
    /\ pc = "awaiting_llm"
    /\ "update_interval" \in attrs
    /\ fetched.cols # RawCols


\* the cycle stopped before the provider answered, or inside the chain
FailedBeforeProvider ==
    fetched.bars # <<>> /\ ~Called("llm.get_trading_decision")
ProviderFailed == Called("llm.get_trading_decision") /\ raw = NoDecision
StageFailed ==
    /\ raw # NoDecision
    /\ \/ ~Called("_adjust_stops_for_regime")
       \/ decision.take_profit.t = "none" \/ decision.stop_loss.t = "none"
       \/ raw.take_profit.t = "none" \/ raw.stop_loss.t = "none"

\* C18: every call of get_trading_decision returns; when the fetch, the
\* order-flow analysis, the regime detection, the provider or a stage of the
\* chain failed, what it returns is position 0.0, confidence 0.0 and a
\* reasoning that starts with "Error:".
C18_FailureYieldsErrorDecision ==
    (pc = "decided") =>
        /\ outcome \in {"no_data", "adjusted", "error"}
        /\ (FailedBeforeProvider \/ ProviderFailed \/ StageFailed) => outcome = "error"
        /\ outcome = "error" =>
              /\ decision.position = Zero
              /\ decision.confidence = Zero
              /\ decision.reasoning[1] = "Error: "

\* C18 witness: a long whose stop_loss is None fails in stage 2 under
\* RANGING_HIGH_VOL and comes back as the error decision
C18_Witness ==
    /\ pc = "decided" /\ outcome = "error"
    /\ raw.position = Rat(8, 10) /\ raw.stop_loss = None
    /\ regime_info.regime = "RANGING_HIGH_VOL"
    /\ Called("_adjust_for_regime") /\ ~Called("_adjust_position_for_regime")
    /\ decision = ErrorDecision("unsupported operand type(s): NoneType")


\* C19: when the fetch returned an empty 1-minute frame, the call returns
\* position 0.0, confidence 0.0 and the reasoning "No market data
\* available", and the cycle invokes neither the order-flow analysis, nor
\* the regime detector, nor the decision provider.
C19_EmptySeriesIsNeutral ==
    (pc = "decided" /\ fetched = EmptyFrame) =>
        /\ decision.position = Zero
        /\ decision.confidence = Zero
        /\ decision.reasoning = <<"No market data available">>
        /\ ~Called("_analyze_order_flow")
        /\ ~Called("detect_regime")
        /\ ~Called("llm.get_trading_decision")

\* C19 witness: an empty frame in a cycle after one that had data
C19_Witness ==
    /\ pc = "decided" /\ fetched = EmptyFrame
    /\ min1_df.bars # <<>>
    /\ decision = NoDataDecision
    /\ calls = <<"fetch_multi_timeframe_data">>


\* the fetch of this cycle returned fewer bars than the rolling window
ShortSeriesAnalysed ==
    /\ pc \in {"awaiting_llm", "decided"}
    /\ Called("_analyze_order_flow")
    /\ Len(fetched.bars) < WINDOW

\* C20: on a 1-minute series shorter than the 20-bar window
\* _analyze_order_flow returns (the cycle goes on to the regime detector),
\* reports aggressive_flow false and stopping_volume_detected false, sets
\* the sweep and stopping_volume flag on no bar, and flow gating leaves the
\* confidence of the provider's decision as it is.
C20_ShortSeriesIsQuiet ==
    ShortSeriesAnalysed =>
        /\ Called("detect_regime")
        /\ ~flow_analysis.aggressive_flow
        /\ ~flow_analysis.stopping_volume_detected
        /\ \A i \in DOMAIN min1_df.bars :
              ~min1_df.derived.sweep[i] /\ ~min1_df.derived.stopping_volume[i]
        /\ raw # NoDecision =>
              FlowGating(raw, flow_analysis).confidence = raw.confidence


UnitInterval(v) == IsNum(v) /\ RLe(Zero, v) /\ RLe(v, One)

\* C21: when the provider's confidence and the regime confidence are in
\* [0, 1] and the sweep strength, where it is a number, is not negative, the
\* confidence is in [0, 1] after flow gating, after stage 2 in every regime
\* and in the decision that is returned.
C21_ConfidenceStaysInRange ==
    (/\ fout.done
     /\ UnitInterval(fin.d.confidence)
     /\ UnitInterval(fin.ri.confidence)
     /\ IsNum(fin.flow.sweep_strength) => RLe(Zero, fin.flow.sweep_strength)) =>
        /\ UnitInterval(fout.s1.confidence)
        /\ UnitInterval(fout.s2.d.confidence)
        /\ UnitInterval(fout.chain.decision.confidence)

\* C21 witness: a long at confidence 1.0 under aggressive bullish flow in
\* TRENDING_UP at regime confidence 1.0: both boosts meet the cap
C21_Witness ==
    /\ fout.done
    /\ fin.d.position = Rat(8, 10) /\ fin.d.confidence = One
    /\ fin.flow.aggressive_flow /\ fin.flow.sweep_bias = "bullish"
    /\ ~fin.flow.stopping_volume_detected
    /\ fin.ri.regime = "TRENDING_UP" /\ fin.ri.confidence = One
    /\ fout.s1.confidence = One
    /\ fout.chain.outcome = "adjusted"
    /\ fout.chain.decision.confidence = One

Sign(v) == IF RLt(Zero, v) THEN 1 ELSE IF RLt(v, Zero) THEN -1 ELSE 0

\* C22: for a provider confidence and a regime confidence in [0, 1] and any
\* regime, the position of the returned decision is 0 or has the sign of
\* the provider's position; a provider position of 0 comes back as 0.
C22_DirectionNeverReversed ==
    (/\ fout.done
     /\ UnitInterval(fin.d.confidence)
     /\ UnitInterval(fin.ri.confidence)) =>
        LET given == Sign(fin.d.position)
            final == Sign(fout.chain.decision.position)
        IN  /\ IsNum(fout.chain.decision.position)
            /\ final = 0 \/ final = given
            /\ given = 0 => fout.chain.decision.position = Zero
            /\ fout.s2.raised \/ Sign(fout.s2.d.position) = given
            /\ Sign(fout.position) \in {0, given}

\* C22 witness: a short of -0.8 at confidence 0.7 in REVERSAL at regime
\* confidence 0.8 against an up trend, returned as a smaller short
C22_Witness ==
    /\ fout.done
    /\ fin.d.position = Rat(-8, 10) /\ fin.d.confidence = Rat(7, 10)
    /\ fin.ri.regime = "REVERSAL" /\ fin.ri.confidence = Rat(8, 10)
    /\ fout.chain.outcome = "adjusted"
    /\ RLt(fout.chain.decision.position, Zero)
    /\ RLt(fin.d.position, fout.chain.decision.position)


====
